---------------------------- MODULE Spec2Model ----------------------------
(***************************************************************************)
(* Model of covid_analysis.py: a straight-line script that downloads a CSV *)
(* table, cleans it, computes summary statistics and writes three charts.  *)
(*                                                                         *)
(* A table (pandas DataFrame) is a record                                   *)
(*    [dtype : column name -> dtype name,                                   *)
(*     rows  : sequence of [idx : index label, c : column name -> cell]]    *)
(* and a cell is a record [k, n, s]: k is the kind of the value ("nan",     *)
(* "num", "str", "ts" for a timestamp counted in days since 1970-01-01,     *)
(* "nat" for the missing timestamp NaT, "period" for a monthly period       *)
(* counted in months since 1970-01), n its number and s its text.           *)
(***************************************************************************)
EXTENDS Integers, Sequences, FiniteSets, TLC

VARIABLES
    pc,                \* position of the script: load, clean, analyze, visualize, done, exited
    response,          \* what the URL answers (the environment, fixed for a run)
    raw,               \* <<table>> returned by load_dataset, <<>> before
    df,                \* <<table>> the global df after clean_dataset, <<>> before
    analysis_results,  \* <<dict>> returned by perform_analysis, <<>> for None
    top_countries,     \* the Series computed for the bar chart, a sequence of [key, value]
    written,           \* chart files saved by create_visualizations, in the order saved
    stdout,            \* the progress and diagnostic lines printed, in order
    exit_code          \* the process exit status once pc is done or exited

vars == <<pc, response, raw, df, analysis_results, top_countries, written,
          stdout, exit_code>>

-----------------------------------------------------------------------------
(* Bounds of the model *)

MaxRows == 2
MaxLocs == 11

-----------------------------------------------------------------------------
(* Cells *)

NaN == [k |-> "nan", n |-> 0, s |-> ""]
NaT == [k |-> "nat", n |-> 0, s |-> ""]
Num(x) == [k |-> "num", n |-> x, s |-> ""]
Str(t) == [k |-> "str", n |-> 0, s |-> t]
Ts(d) == [k |-> "ts", n |-> d, s |-> ""]
Period(m) == [k |-> "period", n |-> m, s |-> ""]

\* Series.notna(): NaN and NaT are the missing values
NotNa(cell) == cell.k \notin {"nan", "nat"}

Max2(a, b) == IF a >= b THEN a ELSE b
Min2(a, b) == IF a <= b THEN a ELSE b

Columns == {"continent", "location", "date", "total_cases", "new_cases", "new_deaths"}

\* The date strings the model's CSV bodies use, with the day number
\* (days since 1970-01-01) pandas parses each to.  A string outside this
\* table is not a date.
DateTable == [s \in {"2021-01-01", "2021-02-15"} |->
                 IF s = "2021-01-01" THEN 18628 ELSE 18673]


-----------------------------------------------------------------------------
(* The CSV resource behind the URL *)

MkRow(cont, loc, date, tc, nc, nd) ==
    [col \in Columns |->
        CASE col = "continent" -> cont
          [] col = "location" -> loc
          [] col = "date" -> date
          [] col = "total_cases" -> tc
          [] col = "new_cases" -> nc
          [] OTHER -> nd]

ContinentValues == {NaN, Str("Europe")}
LocationValues == {NaN, Str("France")}
DateValues == {NaN, Str("2021-01-01"), Str("not-a-date")}
\* <<total_cases, new_cases, new_deaths>> of a line: all blank, all negative
\* (a data revision), all positive
NumericValues == {<<NaN, NaN, NaN>>, <<Num(-5), Num(-3), Num(-1)>>,
                  <<Num(50), Num(7), Num(2)>>}

CsvLines ==
    {MkRow(cont, loc, date, nums[1], nums[2], nums[3]) :
        cont \in ContinentValues, loc \in LocationValues,
        date \in DateValues, nums \in NumericValues}

SeqsUpTo(S, n) == UNION {[1..m -> S] : m \in 0..n}

\* Bodies of at most MaxRows lines over all the value combinations
SmallBodies == SeqsUpTo(CsvLines, MaxRows)

\* Country names in lexicographic order (the order groupby sorts its keys in)
Locations == <<"Argentina", "Brazil", "Canada", "Denmark", "Egypt", "France",
               "Germany", "Hungary", "India", "Japan", "Kenya", "Latvia",
               "Mexico", "Norway", "Unknown", "World">>

\* Bodies with one line for each of the first m locations, listed in
\* descending name order, whose total_cases follow an arithmetic pattern
\* (so that ties occur), followed by at most one more line for one of them
CountryLine(i, v) ==
    MkRow(Str("Europe"), Str(Locations[i]),
          Str(IF i % 2 = 1 THEN "2021-01-01" ELSE "2021-02-15"), Num(v), Num(7), Num(2))

Pattern(i, a) == ((i * a) % 4) * 10

CountryBodies ==
    LET base(m, a) == [j \in 1..m |-> CountryLine(m + 1 - j, Pattern(m + 1 - j, a))]
    IN  {base(m, a) : m \in 0..MaxLocs, a \in 0..3}
        \cup UNION {{Append(base(m, a), CountryLine(i, v)) :
                        a \in 0..3, i \in {1, m}, v \in {5, 45}} :
                     m \in (MaxLocs - 1)..MaxLocs}

Bodies == SmallBodies \cup CountryBodies

\* What requests.get and read_csv can meet: a transport error, a status
\* other than 200, a body without columns, a body read_csv cannot tokenize,
\* or a body of lines
Responses ==
    {[kind |-> "transport_error", status |-> 0, body |-> <<>>],
     [kind |-> "http", status |-> 404, body |-> <<>>],
     [kind |-> "empty", status |-> 200, body |-> <<>>],
     [kind |-> "malformed", status |-> 200, body |-> <<>>]}
    \cup {[kind |-> "csv", status |-> 200, body |-> b] : b \in Bodies}

-----------------------------------------------------------------------------
(* 1. Load Dataset *)

\* the dtype read_csv infers for a column
InferDtype(body, col) ==
    IF Len(body) = 0 \/ \E i \in 1..Len(body) : body[i][col].k = "str"
    THEN "object"
    ELSE IF \E i \in 1..Len(body) : body[i][col].k = "nan"
         THEN "float64"
         ELSE "int64"

\* pd.read_csv(StringIO(response.text)): a RangeIndex and inferred dtypes
ReadCsv(body) ==
    [dtype |-> [col \in Columns |-> InferDtype(body, col)],
     rows |-> [i \in 1..Len(body) |-> [idx |-> i - 1, c |-> body[i]]]]

\* load_dataset(url): the table, or the diagnostic printed before sys.exit(1)
LoadDataset(resp) ==
    CASE resp.kind = "transport_error" ->
            [ok |-> FALSE, msg |-> "Error loading dataset", df |-> <<>>]
      [] resp.status # 200 ->
            [ok |-> FALSE, msg |-> "Error loading dataset", df |-> <<>>]
      [] resp.kind = "empty" ->
            [ok |-> FALSE, msg |-> "Error: The dataset is empty", df |-> <<>>]
      [] resp.kind = "malformed" ->
            [ok |-> FALSE, msg |-> "Unexpected error loading dataset", df |-> <<>>]
      [] OTHER ->
            [ok |-> TRUE, msg |-> "Dataset loaded", df |-> <<ReadCsv(resp.body)>>]

-----------------------------------------------------------------------------
(* 2. Clean Dataset *)

\* df_clean[col] = values: the column replaced row by row
SetColumn(t, col, values) ==
    [t EXCEPT !.rows = [i \in 1..Len(t.rows) |->
        [t.rows[i] EXCEPT !.c[col] = values[i]]]]

\* df.copy()
DfCopy(t) == t

KeepContinentAll(t) == t

\* df_clean[df_clean['continent'].notna()]
KeepContinent(t) ==
    [t EXCEPT !.rows = SelectSeq(t.rows, LAMBDA r : NotNa(r.c["continent"]))]

\* pd.to_datetime on one value (errors='raise' is the default)
Unparseable(cell) == cell.k = "str" /\ cell.s \notin DOMAIN DateTable

ToDatetimeValue(cell) ==
    CASE cell.k = "str" -> Ts(DateTable[cell.s])
      [] cell.k = "nan" -> NaT
      [] OTHER -> cell

ToDatetimeRaisesOnTimestamp(t) ==
    \E i \in 1..Len(t.rows) :
        Unparseable(t.rows[i].c["date"]) \/ t.rows[i].c["date"].k = "ts"

\* whether pd.to_datetime raises on the date column
ToDatetimeRaises(t) ==
    \E i \in 1..Len(t.rows) : Unparseable(t.rows[i].c["date"])

\* df_clean['date'] = pd.to_datetime(df_clean['date'])
ToDatetime(t) ==
    [SetColumn(t, "date", [i \in 1..Len(t.rows) |-> ToDatetimeValue(t.rows[i].c["date"])])
        EXCEPT !.dtype["date"] = "datetime64[ns]"]

FillWith(t, dtypes, value) ==
    [t EXCEPT !.rows = [i \in 1..Len(t.rows) |->
        [t.rows[i] EXCEPT !.c = [col \in DOMAIN t.dtype |->
            IF t.dtype[col] \in dtypes /\ t.rows[i].c[col].k = "nan"
            THEN value
            ELSE t.rows[i].c[col]]]]]

\* select_dtypes(include=['float64', 'int64']) ... fillna(0)
FillNumeric(t) == FillWith(t, {"float64", "int64"}, Num(0))

FillCategoricalSkipped(t) == t

\* select_dtypes(include=['object']) ... fillna('Unknown')
FillCategorical(t) == FillWith(t, {"object"}, Str("Unknown"))

KeepDatesAll(t) == t

\* df_clean[df_clean['date'].notna()]
KeepDates(t) ==
    [t EXCEPT !.rows = SelectSeq(t.rows, LAMBDA r : NotNa(r.c["date"]))]

ClipLowerSkipped(cell) == cell

\* Series.clip(lower=0) on one value
ClipLower(cell) == IF cell.k = "num" THEN Num(Max2(cell.n, 0)) ELSE cell

ClipColumn(t, col) ==
    SetColumn(t, col, [i \in 1..Len(t.rows) |-> ClipLower(t.rows[i].c[col])])

ClipCases(t) == ClipColumn(ClipColumn(t, "total_cases"), "new_cases")

\* clean_dataset(df): arg is the caller's table after the call, result the
\* table returned; raised when the try block raised (the handler prints and
\* calls sys.exit(1))
CleanDataset(t) ==
    LET kept == KeepContinent(DfCopy(t))
    IN  IF ToDatetimeRaises(kept)
        THEN [raised |-> TRUE, arg |-> t, result |-> <<>>]
        ELSE [raised |-> FALSE, arg |-> t,
              result |-> <<ClipCases(KeepDates(FillCategorical(FillNumeric(ToDatetime(kept)))))>>]

-----------------------------------------------------------------------------
(* 3. Basic Analysis *)

RECURSIVE SumSeq(_)
SumSeq(q) == IF q = <<>> THEN 0 ELSE q[1] + SumSeq(Tail(q))

RECURSIVE MaxSeq(_)
MaxSeq(q) == IF Len(q) = 1 THEN q[1] ELSE Max2(q[1], MaxSeq(Tail(q)))

\* ascending insertion of a number into a sorted sequence
RECURSIVE InsertAsc(_, _)
InsertAsc(x, q) ==
    IF q = <<>> THEN <<x>>
    ELSE IF x < q[1] THEN <<x>> \o q
    ELSE <<q[1]>> \o InsertAsc(x, Tail(q))

RECURSIVE SortAsc(_)
SortAsc(q) == IF q = <<>> THEN <<>> ELSE InsertAsc(q[1], SortAsc(Tail(q)))

\* the numbers of a column, missing values skipped
ColumnNumbers(t, col) ==
    LET present == SelectSeq(t.rows, LAMBDA r : r.c[col].k = "num")
    IN  [i \in 1..Len(present) |-> present[i].c[col].n]

\* Series.mean(): the quotient num/den, NaN (den = 0) for no value
Mean(q) == [num |-> SumSeq(q), den |-> Len(q)]

\* Series.median(): the middle value, or the mean of the two middle values
Median(q) ==
    LET sorted == SortAsc(q)
        n == Len(q)
    IN  IF n = 0 THEN [num |-> 0, den |-> 0]
        ELSE IF n % 2 = 1 THEN [num |-> sorted[(n + 1) \div 2], den |-> 1]
        ELSE [num |-> sorted[n \div 2] + sorted[n \div 2 + 1], den |-> 2]

\* Series.max(): NaN for no value
MaxOf(q) == IF q = <<>> THEN NaN ELSE Num(MaxSeq(q))

\* DataFrame.corr() of two columns over the rows where both are present:
\* the off-diagonal Pearson coefficient is cov / sqrt(varx * vary), kept
\* here as its three integer moments (each scaled by the square of the count)
Correlation(t, a, b) ==
    LET both == SelectSeq(t.rows, LAMBDA r : r.c[a].k = "num" /\ r.c[b].k = "num")
        n == Len(both)
        x == [i \in 1..n |-> both[i].c[a].n]
        y == [i \in 1..n |-> both[i].c[b].n]
        xy == [i \in 1..n |-> x[i] * y[i]]
        xx == [i \in 1..n |-> x[i] * x[i]]
        yy == [i \in 1..n |-> y[i] * y[i]]
    IN  [cov |-> n * SumSeq(xy) - SumSeq(x) * SumSeq(y),
         varx |-> n * SumSeq(xx) - SumSeq(x) * SumSeq(x),
         vary |-> n * SumSeq(yy) - SumSeq(y) * SumSeq(y)]

\* the dict perform_analysis returns when its try block completes
AnalysisDict(t) ==
    [mean_cases |-> Mean(ColumnNumbers(t, "new_cases")),
     median_cases |-> Median(ColumnNumbers(t, "new_cases")),
     max_cases |-> MaxOf(ColumnNumbers(t, "new_cases")),
     total_cases |-> MaxOf(ColumnNumbers(t, "total_cases")),
     correlation |-> Correlation(t, "new_cases", "new_deaths")]

AnalysisExceptExits == [msg |-> "Error performing analysis", fatal |-> TRUE]

\* except Exception: print the diagnostic and return None
AnalysisExcept == [msg |-> "Error performing analysis", fatal |-> FALSE]

\* perform_analysis(df); raises says whether a statement of the try block
\* raised (a library call or a print failing)
PerformAnalysis(t, raises) ==
    IF raises
    THEN [result |-> <<>>, msg |-> AnalysisExcept.msg, fatal |-> AnalysisExcept.fatal]
    ELSE [result |-> <<AnalysisDict(t)>>, msg |-> "Analysis printed", fatal |-> FALSE]

-----------------------------------------------------------------------------
(* 4. Visualizations *)

TopN == 10

\* the three charts in the order the function draws and saves them
ChartOrder == <<"global_new_cases.png", "top_10_countries_total_cases.png",
                "monthly_trend.png">>

\* Where the try block can raise: creating the directory, drawing or saving
\* one of the charts, or nowhere.  StepNo orders these points.
Faults == {"makedirs", "chart1", "chart2", "chart3", "none"}

StepNo(fault) ==
    CASE fault = "makedirs" -> 0
      [] fault = "chart1" -> 1
      [] fault = "chart2" -> 2
      [] fault = "chart3" -> 3
      [] OTHER -> 4

ChartsSavedIsolated(fault) ==
    SelectSeq(ChartOrder, LAMBDA f : f # ChartOrder[Max2(Min2(StepNo(fault), 3), 1)]
                                     \/ StepNo(fault) \notin 1..3)

\* the charts saved before the exception (if any) left the try block
ChartsSaved(fault) == SubSeq(ChartOrder, 1, Max2(StepNo(fault) - 1, 0))

\* position of a group key in sorted order: strings by name, a number first
KeyRank(cell) ==
    IF cell.k = "str"
    THEN CHOOSE i \in 1..Len(Locations) : Locations[i] = cell.s
    ELSE 0

\* groupby(col): the distinct present keys, sorted
RECURSIVE SortKeys(_)
SortKeys(keys) ==
    IF keys = {} THEN <<>>
    ELSE LET first == CHOOSE x \in keys : \A y \in keys : KeyRank(x) <= KeyRank(y)
         IN  <<first>> \o SortKeys(keys \ {first})

GroupKeys(t, col) ==
    SortKeys({t.rows[i].c[col] : i \in {j \in 1..Len(t.rows) : NotNa(t.rows[j].c[col])}})

\* groupby('location')['total_cases'].max(): one entry per key, in key order
GroupMax(t) ==
    LET keys == GroupKeys(t, "location")
        group(key) == SelectSeq(t.rows, LAMBDA r : r.c["location"] = key)
    IN  [i \in 1..Len(keys) |->
            [key |-> keys[i], value |-> MaxOf(ColumnNumbers([t EXCEPT !.rows = group(keys[i])], "total_cases")).n]]

\* descending insertion behind the entries that are at least as large
RECURSIVE InsertDesc(_, _)
InsertDesc(e, q) ==
    IF q = <<>> THEN <<e>>
    ELSE IF e.value > q[1].value THEN <<e>> \o q
    ELSE <<q[1]>> \o InsertDesc(e, Tail(q))

RECURSIVE SortValuesAsc(_)
SortValuesAsc(q) ==
    IF Len(q) <= 1 THEN q
    ELSE LET least == CHOOSE i \in 1..Len(q) : \A j \in 1..Len(q) : q[i].value <= q[j].value
         IN  <<q[least]>> \o SortValuesAsc(SubSeq(q, 1, least - 1) \o SubSeq(q, least + 1, Len(q)))

\* Series.sort_values(ascending=False); the series of the model are short
\* enough for the sort to keep equal values in their order
RECURSIVE SortValuesDesc(_)
SortValuesDesc(q) ==
    IF q = <<>> THEN <<>>
    ELSE InsertDesc(q[Len(q)], SortValuesDesc(SubSeq(q, 1, Len(q) - 1)))

\* Series.head(n)
Head_(q, n) == SubSeq(q, 1, Min2(n, Len(q)))

TopCountries(t) == Head_(SortValuesDesc(GroupMax(t)), TopN)

\* Timestamp.to_period('M'): months since 1970-01 of a day number
MonthOfDay(d) ==
    LET z == d + 719468
        era == z \div 146097
        doe == z - era * 146097
        yoe == (doe - doe \div 1460 + doe \div 36524 - doe \div 146096) \div 365
        doy == doe - (365 * yoe + yoe \div 4 - yoe \div 100)
        mp == (5 * doy + 2) \div 153
        m == IF mp < 10 THEN mp + 3 ELSE mp - 9
        y == yoe + era * 400 + (IF m <= 2 THEN 1 ELSE 0)
    IN  (y - 1970) * 12 + (m - 1)

\* df['month'] = df['date'].dt.to_period('M')
AddMonth(t) ==
    [dtype |-> [col \in DOMAIN t.dtype \cup {"month"} |->
                    IF col = "month" THEN "period[M]" ELSE t.dtype[col]],
     rows |-> [i \in 1..Len(t.rows) |->
                 [idx |-> t.rows[i].idx,
                  c |-> [col \in DOMAIN t.dtype \cup {"month"} |->
                            IF col = "month"
                            THEN Period(MonthOfDay(t.rows[i].c["date"].n))
                            ELSE t.rows[i].c[col]]]]]

\* create_visualizations(df) with the try block raising at fault: arg is
\* the caller's table after the call
CreateVisualizations(t, fault) ==
    [arg |-> IF StepNo(fault) >= 3 THEN AddMonth(t) ELSE t,
     top |-> IF StepNo(fault) >= 2 THEN TopCountries(t) ELSE <<>>,
     saved |-> ChartsSaved(fault),
     msg |-> IF fault = "none" THEN "All visualizations saved successfully"
             ELSE "Error creating visualizations"]

-----------------------------------------------------------------------------
(* The script *)

Init ==
    /\ pc = "load"
    /\ response \in Responses
    /\ raw = <<>>
    /\ df = <<>>
    /\ analysis_results = <<>>
    /\ top_countries = <<>>
    /\ written = <<>>
    /\ stdout = <<>>
    /\ exit_code = 0

\* df = load_dataset(url)
Load ==
    /\ pc = "load"
    /\ LET r == LoadDataset(response)
       IN  /\ stdout' = stdout \o <<"Loading dataset...", r.msg>>
           /\ raw' = r.df
           /\ pc' = IF r.ok THEN "clean" ELSE "exited"
           /\ exit_code' = IF r.ok THEN exit_code ELSE 1
    /\ UNCHANGED <<response, df, analysis_results, top_countries, written>>

\* df = clean_dataset(df)
Clean ==
    /\ pc = "clean"
    /\ LET r == CleanDataset(raw[1])
       IN  /\ raw' = <<r.arg>>
           /\ df' = r.result
           /\ stdout' = stdout \o <<"Cleaning dataset...",
                            IF r.raised THEN "Error cleaning dataset" ELSE "Dataset cleaned"
                        >>
           /\ pc' = IF r.raised THEN "exited" ELSE "analyze"
           /\ exit_code' = IF r.raised THEN 1 ELSE exit_code
    /\ UNCHANGED <<response, analysis_results, top_countries, written>>

\* analysis_results = perform_analysis(df)
Analyze ==
    /\ pc = "analyze"
    /\ \E raises \in BOOLEAN :
         LET r == PerformAnalysis(df[1], raises)
         IN  /\ analysis_results' = r.result
             /\ stdout' = stdout \o <<"--- Basic Analysis ---", r.msg>>
             /\ pc' = IF r.fatal THEN "exited" ELSE "visualize"
             /\ exit_code' = IF r.fatal THEN 1 ELSE exit_code
    /\ UNCHANGED <<response, raw, df, top_countries, written>>

\* create_visualizations(df), after which the script ends
Visualize ==
    /\ pc = "visualize"
    /\ \E fault \in Faults :
         LET r == CreateVisualizations(df[1], fault)
         IN  /\ df' = <<r.arg>>
             /\ top_countries' = r.top
             /\ written' = written \o r.saved
             /\ stdout' = stdout \o <<"Generating visualizations...", r.msg>>
    /\ pc' = "done"
    /\ exit_code' = 0
    /\ UNCHANGED <<response, raw, analysis_results>>

Next == Load \/ Clean \/ Analyze \/ Visualize

Spec == Init /\ [][Next]_vars

-----------------------------------------------------------------------------
(* Properties *)

Printed(line) == \E i \in 1..Len(stdout) : stdout[i] = line

RawRows == raw[1].rows
DfRows == df[1].rows

\* the line of the loaded table a cleaned row comes from (by index label)
Original(r) == RawRows[r.idx + 1]

Labels(rows) == [i \in 1..Len(rows) |-> rows[i].idx]

IsPrefix(p, q) == Len(p) <= Len(q) /\ p = SubSeq(q, 1, Len(p))

LoaderFailed ==
    \/ Printed("Error loading dataset")
    \/ Printed("Error: The dataset is empty")
    \/ Printed("Unexpected error loading dataset")

CleanerFailed == Printed("Error cleaning dataset")

\* C1: every row of the table clean_dataset returns has total_cases >= 0 and
\* new_cases >= 0, also where the input value was negative or absent.
C1_NonNegativity ==
    df # <<>> =>
        \A i \in 1..Len(DfRows) :
            /\ DfRows[i].c["total_cases"].k = "num"
            /\ DfRows[i].c["total_cases"].n >= 0
            /\ DfRows[i].c["new_cases"].k = "num"
            /\ DfRows[i].c["new_cases"].n >= 0

\* a cleaned table holding a row that came in negative and a row that came in blank
C1_Witness ==
    /\ df # <<>>
    /\ \E i \in 1..Len(DfRows) : Original(DfRows[i]).c["total_cases"] = Num(-5)
    /\ \E i \in 1..Len(DfRows) : Original(DfRows[i]).c["new_cases"] = NaN

\* C2: every row of the table clean_dataset returns has a present continent
\* and a valid date, and comes from an input line whose continent and date
\* were present: the fill with "Unknown" never retains a line that lacked either.
C2_RequiredFields ==
    df # <<>> =>
        \A i \in 1..Len(DfRows) :
            /\ NotNa(DfRows[i].c["continent"])
            /\ DfRows[i].c["date"].k = "ts"
            /\ NotNa(Original(DfRows[i]).c["continent"])
            /\ NotNa(Original(DfRows[i]).c["date"])

\* the scenario of the specification: of two lines, the one without continent is dropped
C2_Witness ==
    /\ pc = "analyze"
    /\ Len(RawRows) = 2
    /\ Len(DfRows) = 1
    /\ \E i \in 1..2 : RawRows[i].c["continent"] = NaN /\ RawRows[i].c["date"].k = "str"

\* C3: a line with a present continent whose date does not parse is dropped
\* and the other lines are cleaned and returned; the Cleaner does not fail.
C3_UnparseableDateDropped ==
    (pc \notin {"load", "clean"} /\ raw # <<>>
        /\ \E i \in 1..Len(RawRows) :
              NotNa(RawRows[i].c["continent"]) /\ Unparseable(RawRows[i].c["date"]))
    => /\ pc # "exited"
       /\ ~CleanerFailed
       /\ df # <<>>
       /\ Labels(DfRows) =
            Labels(SelectSeq(RawRows, LAMBDA r : /\ NotNa(r.c["continent"])
                                                  /\ NotNa(r.c["date"])
                                                  /\ ~Unparseable(r.c["date"])))

\* C4: the exit status is non-zero exactly when the Loader or the Cleaner
\* failed, and then no later stage ran; a failure of the analysis or of the
\* visualization leaves the status 0, and a failed analysis is followed by
\* the call of create_visualizations.
C4_ExitStatus ==
    /\ (pc = "exited") <=> (exit_code # 0)
    /\ (pc \in {"done", "exited"}) => ((exit_code # 0) <=> (LoaderFailed \/ CleanerFailed))
    /\ LoaderFailed => raw = <<>> /\ ~Printed("Cleaning dataset...")
    /\ (LoaderFailed \/ CleanerFailed) =>
          /\ df = <<>>
          /\ ~Printed("--- Basic Analysis ---")
          /\ ~Printed("Generating visualizations...")
          /\ written = <<>>
    /\ Printed("Error performing analysis") => exit_code = 0 /\ pc \in {"visualize", "done"}
    /\ Printed("Error creating visualizations") => exit_code = 0 /\ pc = "done"
    /\ pc = "done" => Printed("Generating visualizations...")

\* a run in which both the analysis and the visualization failed and that ended with status 0
C4_Witness ==
    /\ pc = "done"
    /\ exit_code = 0
    /\ analysis_results = <<>>
    /\ Printed("Error performing analysis")
    /\ Printed("Error creating visualizations")

\* C5: cleaning the table clean_dataset returned succeeds and returns the same table.
C5_Idempotence ==
    pc = "analyze" =>
        /\ ~CleanDataset(df[1]).raised
        /\ CleanDataset(df[1]).result = df

\* a cleaned table whose first cleaning dropped a line, clipped a value and parsed a date
C5_Witness ==
    /\ pc = "analyze"
    /\ Len(DfRows) < Len(RawRows)
    /\ \E i \in 1..Len(DfRows) :
          /\ Original(DfRows[i]).c["total_cases"] = Num(-5)
          /\ Original(DfRows[i]).c["location"] = NaN
          /\ Original(DfRows[i]).c["date"].k = "str"

\* C6: perform_analysis and create_visualizations leave the cleaned table as
\* it is: its columns, its rows and every value.
C6_CleanedTableReadOnly == [][(pc \in {"analyze", "visualize"}) => (df' = df)]_vars

\* C7: the top-10 series gives each selected location the maximum
\* total_cases of its rows, is sorted in descending order, has
\* min(10, number of distinct locations) entries, and no location left out
\* has a larger maximum than one included.
C7_TopTen ==
    (pc = "done" /\ Len(written) >= 1) =>
        LET locs == {DfRows[i].c["location"] : i \in 1..Len(DfRows)}
            totals(l) == {DfRows[i].c["total_cases"].n :
                            i \in {j \in 1..Len(DfRows) : DfRows[j].c["location"] = l}}
            highest(l) == CHOOSE v \in totals(l) : \A w \in totals(l) : v >= w
            n == Len(top_countries)
            chosen == {top_countries[i].key : i \in 1..n}
        IN  /\ n = Min2(10, Cardinality(locs))
            /\ Cardinality(chosen) = n
            /\ \A i \in 1..n : /\ top_countries[i].key \in locs
                               /\ top_countries[i].value = highest(top_countries[i].key)
            /\ \A i \in 1..n : \A j \in i..n : top_countries[i].value >= top_countries[j].value
            /\ \A l \in locs \ chosen : \A i \in 1..n : highest(l) <= top_countries[i].value

\* more than ten locations, one of them with several rows, and a location
\* left out that ties with the last one selected
C7_Witness ==
    /\ pc = "done"
    /\ Len(written) >= 1
    /\ Len(top_countries) = 10
    /\ Cardinality({DfRows[i].c["location"] : i \in 1..Len(DfRows)}) > 10
    /\ Len(DfRows) > Cardinality({DfRows[i].c["location"] : i \in 1..Len(DfRows)})
    /\ top_countries[1].value > top_countries[10].value
    /\ \E i \in 1..Len(DfRows) :
          /\ \A j \in 1..10 : top_countries[j].key # DfRows[i].c["location"]
          /\ DfRows[i].c["total_cases"].n = top_countries[10].value

\* C8: in every retained row an absent value of a numeric column is 0, an
\* absent value of a text column is "Unknown", a present value is unchanged
\* except for the clipping of total_cases and new_cases (and the date, which
\* is the timestamp of the date written), so no numeric or text value is absent.
C8_FillRule ==
    pc = "analyze" =>
        \A i \in 1..Len(DfRows) : \A col \in Columns :
            LET was == Original(DfRows[i]).c[col]
                now == DfRows[i].c[col]
                dtype == raw[1].dtype[col]
            IN  /\ now.k # "nan"
                /\ col = "date" => was.k = "str" /\ now = Ts(DateTable[was.s])
                /\ (col # "date" /\ dtype = "object") =>
                      now = (IF was = NaN THEN Str("Unknown") ELSE was)
                /\ (dtype \in {"float64", "int64"} /\ col \notin {"total_cases", "new_cases"}) =>
                      now = (IF was = NaN THEN Num(0) ELSE was)
                /\ (dtype \in {"float64", "int64"} /\ col \in {"total_cases", "new_cases"}) =>
                      now = (IF was = NaN \/ was.n < 0 THEN Num(0) ELSE was)

\* a retained row that came in with a blank number and a blank text value in a text column
C8_Witness ==
    /\ pc = "analyze"
    /\ raw[1].dtype["location"] = "object"
    /\ \E i \in 1..Len(DfRows) :
          /\ Original(DfRows[i]).c["new_deaths"] = NaN
          /\ Original(DfRows[i]).c["location"] = NaN
          /\ DfRows[i].c["location"] = Str("Unknown")

\* C9: when every present date of the input parses, the rows returned are
\* the input rows with a present continent and a present date, in their
\* order, none added or repeated; so there are no more rows than before,
\* and the table passed in is left as it was loaded.
C9_RowsPreserved ==
    (pc \in {"analyze", "visualize", "done"}
        /\ \A i \in 1..Len(RawRows) : ~Unparseable(RawRows[i].c["date"]))
    => /\ Labels(DfRows) =
            Labels(SelectSeq(RawRows, LAMBDA r : NotNa(r.c["continent"]) /\ NotNa(r.c["date"])))
       /\ Len(DfRows) <= Len(RawRows)
       /\ raw = <<ReadCsv(response.body)>>

\* of two lines with a continent, the first without a date, only the second is returned
C9_Witness ==
    /\ pc = "analyze"
    /\ Len(RawRows) = 2
    /\ NotNa(RawRows[1].c["continent"]) /\ RawRows[1].c["date"] = NaN
    /\ Labels(DfRows) = <<1>>

\* C10: the charts saved by a call are a prefix of the fixed order (a later
\* chart is never saved unless every earlier one was), a saved chart is not
\* removed, and the call returns normally: the script then ends with status 0.
C10_ChartPrefix ==
    /\ [](/\ IsPrefix(written, ChartOrder)
          /\ Printed("Generating visualizations...") => pc = "done" /\ exit_code = 0
          /\ Printed("All visualizations saved successfully") => written = ChartOrder)
    /\ [][IsPrefix(written, written')]_vars

\* the second chart raised: the first stays saved, the third was never attempted
C10_Witness ==
    /\ pc = "done"
    /\ written = <<"global_new_cases.png">>
    /\ top_countries # <<>>
    /\ Printed("Error creating visualizations")

=============================================================================
